---- MODULE Spec2Model ----
(***************************************************************************)
(* vsixget: one invocation of src/vsixget.py as a state machine.           *)
(*                                                                         *)
(* main() parses the identifier, download_extension() resolves the version *)
(* label (metadata retry loop), then download_file() is tried for the      *)
(* platform-specific and the universal URL.  The file system is modelled   *)
(* at the two paths the run touches, filepath and filepath + ".tmp", with  *)
(* inodes, so that a path, an open file object and a rename refer to the   *)
(* same bytes.  The network is the environment: every request draws its    *)
(* outcome from the responses and transport errors below.  File system     *)
(* calls themselves do not fail (the directory is writable).               *)
(*                                                                         *)
(* Strings that the code takes apart (the identifier) are sequences of     *)
(* one-character strings; a file's content is the sequence of chunks       *)
(* written to it.                                                          *)
(***************************************************************************)
EXTENDS Integers, Sequences, FiniteSets, TLC

\* ---------------------------------------------------------------- constants

\* src/vsixget.py:15
MAX_RETRIES == 3

\* Largest number of entry chunks before the end-of-central-directory chunk
\* in an archive the server sends.
MaxEntries == 1

\* Invocations that may run; Spec starts the first one only.
Procs == {1, 2}

\* Inode numbers; 0 stands for "no file at this path" / "no open file".
\* A path, and each process's open file, holds at most one inode.
Inodes == 1 .. (2 + Cardinality(Procs))

\* Python's None for a string-valued result.
None == <<"<None>">>

\* `not x` for a str-or-None value.
Falsy(x) == x = None \/ x = <<>>

\* ------------------------------------------------------------------ strings

\* Index of the first occurrence of character c in s, 0 when there is none.
RECURSIVE FindFrom(_, _, _)
FindFrom(s, c, i) ==
    IF i > Len(s) THEN 0
    ELSE IF s[i] = c THEN i
    ELSE FindFrom(s, c, i + 1)

Find(s, c) == FindFrom(s, c, 1)

\* str.split(".", 1): at most two parts, cut at the first dot.
Split1(s) ==
    LET d == Find(s, ".") IN
    IF d = 0 THEN <<s>>
    ELSE <<SubSeq(s, 1, d - 1), SubSeq(s, d + 1, Len(s))>>

\* re.match(r"([^.]+)\.(.+)", s): anchored at the start only.  Group 1 is the
\* non-empty run before the first dot; group 2 is the longest non-empty run
\* after it that holds no newline ("." does not match "\n").  None when
\* there is no match.
ReMatch(s) ==
    LET d    == Find(s, ".")
        rest == IF d = 0 THEN <<>> ELSE SubSeq(s, d + 1, Len(s))
        nl   == Find(rest, "\n")
        g2   == IF nl = 0 THEN rest ELSE SubSeq(rest, 1, nl - 1)
    IN  IF d <= 1 \/ g2 = <<>> THEN None
        ELSE <<SubSeq(s, 1, d - 1), g2>>

\* parse_qs(query)[key]: the non-blank values given for key, in order
\* (blank values are dropped, so a key with only blank values is absent).
RECURSIVE QsValues(_, _)
QsValues(query, key) ==
    IF query = <<>> THEN <<>>
    ELSE LET h == Head(query)
             t == QsValues(Tail(query), key)
         IN  IF h.key = key /\ h.val # <<>> THEN <<h.val>> \o t ELSE t

\* An extension_id argument: scheme is the "http://" or "https://" prefix the
\* code tests for ("" when the string has neither), text is the raw string
\* (for a URL: what follows the scheme up to the query), query is the URL's
\* query string as its key=value pairs.
RawId(text)       == [scheme |-> "", text |-> text, query |-> <<>>]
UrlId(sch, query) == [scheme |-> sch, text |-> <<"h", "/">>, query |-> query]

\* parse_extension_id (src/vsixget.py:86-105): <<publisher, extension>>,
\* or <<None, None>>.
parse_extension_id(extension_id) ==
    IF extension_id.scheme \in {"http://", "https://"}
    THEN LET vals == QsValues(extension_id.query, "itemName") IN
         IF vals # <<>>
         THEN LET match == ReMatch(vals[1]) IN
              IF match # None THEN match ELSE <<None, None>>
         ELSE <<None, None>>
    ELSE LET parts == Split1(extension_id.text) IN
         IF Len(parts) = 2 THEN <<parts[1], parts[2]>> ELSE <<None, None>>

\* -------------------------------------------------------------- file system

\* What a path that names no file reads as.
Absent == <<"<absent>">>

\* An archive as the server sends it: entry chunks, then the chunk holding
\* the central directory and its end record.
Archive(n) == [i \in 1 .. (n + 1) |-> IF i = n + 1 THEN "EOCD" ELSE "ENTRY"]

\* zipfile.ZipFile(path).namelist() succeeds: the end record is found at the
\* end of the file and every chunk before it is an entry it lists.
IsZipFile(content) ==
    /\ Len(content) > 0
    /\ content[Len(content)] = "EOCD"
    /\ \A i \in 1 .. (Len(content) - 1) : content[i] = "ENTRY"

\* verify_vsix without the archive test: any non-empty file passes.
verify_vsix_NonEmptyOnly(content) ==
    ~(content = Absent \/ Len(content) = 0)

\* verify_vsix (src/vsixget.py:175-194) on the content found at a path.
\* Every exception is caught inside and turned into False.
verify_vsix(content) ==
    IF content = Absent \/ Len(content) = 0 THEN FALSE
    ELSE IsZipFile(content)

\* f.write(chunk) at position pos of a file holding content: bytes beyond
\* the end leave a hole of zeros.
WriteAt(content, pos, chunk) ==
    [i \in 1 .. (IF pos + 1 > Len(content) THEN pos + 1 ELSE Len(content)) |->
        IF i = pos + 1 THEN chunk
        ELSE IF i <= Len(content) THEN content[i]
        ELSE "ZERO"]

\* ----------------------------------------------------------------- network

\* Outcomes of requests.get on the metadata endpoint (src/vsixget.py:127).
\* json = FALSE: response.json() raises; hasVersions: 'versions' in data.
MetaResponses ==
    { [kind |-> "response", status |-> 200, json |-> TRUE, hasVersions |-> TRUE,
       versions |-> <<"3.2.1", "3.2.0">>],
      [kind |-> "response", status |-> 200, json |-> TRUE, hasVersions |-> TRUE,
       versions |-> <<>>],
      [kind |-> "response", status |-> 200, json |-> TRUE, hasVersions |-> FALSE,
       versions |-> <<>>],
      [kind |-> "response", status |-> 200, json |-> FALSE, hasVersions |-> FALSE,
       versions |-> <<>>],
      [kind |-> "response", status |-> 404, json |-> FALSE, hasVersions |-> FALSE,
       versions |-> <<>>],
      [kind |-> "response", status |-> 500, json |-> FALSE, hasVersions |-> FALSE,
       versions |-> <<>>],
      [kind |-> "Timeout", status |-> 0, json |-> FALSE, hasVersions |-> FALSE,
       versions |-> <<>>],
      [kind |-> "ConnectionError", status |-> 0, json |-> FALSE, hasVersions |-> FALSE,
       versions |-> <<>>] }

\* Bodies of a 200 download response, as the chunks iter_content yields:
\* whole archives, an archive cut short, an error page, nothing at all, and
\* an archive with an empty chunk in between.
Bodies ==
    { Archive(n) : n \in 0 .. MaxEntries }
    \cup { <<"ENTRY">>, <<"HTML">>, <<>>, <<"", "EOCD">> }

\* Outcomes of requests.get on a download URL (src/vsixget.py:214).
DownloadResponses ==
    { [kind |-> "response", status |-> 200, body |-> b] : b \in Bodies }
    \cup { [kind |-> "response", status |-> 404, body |-> <<>>],
           [kind |-> "response", status |-> 500, body |-> <<>>],
           [kind |-> "Timeout", status |-> 0, body |-> <<>>],
           [kind |-> "ConnectionError", status |-> 0, body |-> <<>>],
           [kind |-> "Exception", status |-> 0, body |-> <<>>] }

\* How the log names an outcome.
Label(r) == IF r.kind = "response" THEN ToString(r.status) ELSE r.kind

\* -------------------------------------------------------------------- state

VARIABLES
    \* the file system at filepath and filepath + ".tmp"
    disk,           \* inode -> content
    tmpIno,         \* inode at temp_path, 0 when no file is there
    finalIno,       \* inode at output_path, 0 when no file is there
    dirExists,      \* the destination directory exists
    before,         \* contents at output_path and temp_path before the run
    served,         \* what the server and the network may answer a download with
    \* per invocation: arguments and locals
    pc,             \* position in the code
    extension_id,   \* args.extension_id
    version,        \* args.version, then the local of main/download_extension
    versionArg,     \* the version download_extension was called with
    skip_version_check,
    publisher, extension,
    actual_version, \* the version label of the filename
    base_url,       \* the version segment of the download path
    filename,
    attempt,        \* loop variable of the current retry loop
    candidate,      \* which download_file call is running
    fd,             \* inode of the open temp file, 0 when none is open
    fpos,           \* write position of the open temp file
    stream,         \* chunks of the response body not yet read
    success,        \* download_extension's return value
    exitCode,       \* sys.exit's argument, -1 while running
    \* per invocation: what has happened so far
    prompted,       \* input() was called
    metaReqs,       \* metadata requests issued
    metaLast,       \* outcome of the latest metadata request
    metaFell,       \* some metadata attempt ended without a version (not by 404)
    dlReqs,         \* candidate -> download requests issued
    dlLast,         \* outcome of the latest download request of the candidate
    outcome,        \* candidate -> how its download_file call ended
    sleeps,         \* delays slept in the current retry loop
    commits         \* os.replace calls that reached output_path

fsVars   == <<disk, tmpIno, finalIno, dirExists, before, served>>
argVars  == <<extension_id, version, versionArg, skip_version_check, publisher,
             extension>>
verVars  == <<actual_version, base_url, filename>>
dlVars   == <<candidate, fd, fpos, stream>>
endVars  == <<success, exitCode>>
metaHist == <<metaReqs, metaLast, metaFell>>
dlHist   == <<dlReqs, dlLast, outcome, commits>>
vars == <<fsVars, argVars, verVars, dlVars, endVars, metaHist, dlHist,
          pc, attempt, prompted, sleeps>>

Candidates == {"platform", "universal"}

\* Content found at a path.
Content(ino) == IF ino = 0 THEN Absent ELSE disk[ino]

\* An inode is kept while a path or an open file refers to it.
Referenced(t, f, fds) == ({t, f} \cup {fds[p] : p \in Procs}) \ {0}

\* The disk after a change of references: unreferenced inodes are freed.
Reclaim(d, t, f, fds) ==
    [i \in Inodes |-> IF i \in Referenced(t, f, fds) THEN d[i] ELSE <<>>]

\* The inode a newly created file gets.
FreshInode(t, f, fds) ==
    CHOOSE i \in Inodes \ Referenced(t, f, fds) :
        \A j \in Inodes \ Referenced(t, f, fds) : i <= j

\* --------------------------------------------------------------------- Init

\* Identifiers given on the command line.
IdInputs ==
    { RawId(<<"p", ".", "e">>),
      RawId(<<"p", ".", "e", ".", "f">>),
      RawId(<<"n", "o">>),
      RawId(<<".", "e">>),
      RawId(<<"p", ".">>),
      UrlId("https://", << [key |-> "itemName", val |-> <<"p", ".", "e">>] >>),
      UrlId("http://", << [key |-> "x", val |-> <<"p", ".", "e">>] >>),
      UrlId("https://", << [key |-> "itemName", val |-> <<"n", "o">>] >>) }

\* -v/--version: "" when the option is not given.
VersionArgs == {"", "1.0"}

\* What the user types at the version prompt.
PromptInputs == {"", "2.0"}

\* What may lie at output_path before the run: nothing, or the archive of an
\* earlier run.
FinalBefore == {Absent, <<"ENTRY", "ENTRY", "EOCD">>}

\* What may lie at temp_path before the run: nothing, or the partial file
\* of an aborted run.
TempBefore == {Absent, <<"ENTRY">>}

InitWith(active, ids) ==
    /\ dirExists \in BOOLEAN
    /\ \E f \in FinalBefore, t \in TempBefore :
         \* a directory that does not exist holds no files
         /\ dirExists \/ (f = Absent /\ t = Absent)
         /\ before = [final |-> f, temp |-> t]
         /\ finalIno = IF f = Absent THEN 0 ELSE 1
         /\ tmpIno = IF t = Absent THEN 0 ELSE 2
         /\ disk = [i \in Inodes |->
                      IF i = 1 /\ f # Absent THEN f
                      ELSE IF i = 2 /\ t # Absent THEN t
                      ELSE <<>>]
    /\ pc = [p \in Procs |-> IF p \in active THEN "main" ELSE "off"]
    /\ \E id \in ids, v \in VersionArgs, s \in BOOLEAN :
         /\ extension_id = [p \in Procs |-> id]
         /\ version = [p \in Procs |-> v]
         /\ skip_version_check = [p \in Procs |-> s]
    /\ versionArg = [p \in Procs |-> ""]
    /\ publisher = [p \in Procs |-> None]
    /\ extension = [p \in Procs |-> None]
    /\ actual_version = [p \in Procs |-> ""]
    /\ base_url = [p \in Procs |-> ""]
    /\ filename = [p \in Procs |-> <<>>]
    /\ attempt = [p \in Procs |-> 0]
    /\ candidate = [p \in Procs |-> "platform"]
    /\ fd = [p \in Procs |-> 0]
    /\ fpos = [p \in Procs |-> 0]
    /\ stream = [p \in Procs |-> <<>>]
    /\ success = [p \in Procs |-> FALSE]
    /\ exitCode = [p \in Procs |-> -1]
    /\ prompted = [p \in Procs |-> FALSE]
    /\ metaReqs = [p \in Procs |-> 0]
    /\ metaLast = [p \in Procs |-> "none"]
    /\ metaFell = [p \in Procs |-> FALSE]
    /\ dlReqs = [p \in Procs |-> [c \in Candidates |-> 0]]
    /\ dlLast = [p \in Procs |-> "none"]
    /\ outcome = [p \in Procs |-> [c \in Candidates |-> "none"]]
    /\ sleeps = [p \in Procs |-> <<>>]
    /\ commits = [p \in Procs |-> 0]

InitFor(active) == InitWith(active, IdInputs)

Init == InitFor({1}) /\ served = DownloadResponses

\* --------------------------------------------------------------------- main

\* main going on to download_extension although the identifier did not parse.
Main_NoExit(p) ==
    /\ pc[p] = "main"
    /\ LET parsed == parse_extension_id(extension_id[p]) IN
       /\ publisher' = [publisher EXCEPT ![p] = parsed[1]]
       /\ extension' = [extension EXCEPT ![p] = parsed[2]]
       /\ IF Falsy(parsed[1]) \/ Falsy(parsed[2])
          THEN /\ pc' = [pc EXCEPT ![p] = "download_extension"]
               /\ UNCHANGED <<exitCode, version, versionArg, prompted>>
          ELSE /\ \E isatty \in BOOLEAN :
                    IF version[p] = "" /\ isatty /\ ~skip_version_check[p]
                    THEN /\ \E typed \in PromptInputs :
                              version' = [version EXCEPT ![p] = typed]
                         /\ prompted' = [prompted EXCEPT ![p] = TRUE]
                    ELSE UNCHANGED <<version, prompted>>
               /\ versionArg' = [versionArg EXCEPT ![p] = version'[p]]
               /\ pc' = [pc EXCEPT ![p] = "download_extension"]
               /\ UNCHANGED exitCode
    /\ UNCHANGED <<fsVars, extension_id, skip_version_check, verVars, dlVars,
                   success, metaHist, dlHist, attempt, sleeps>>

\* main (src/vsixget.py:338-360): parse the identifier, exit with 1 when it
\* does not parse, else prompt for a version when none was given on an
\* interactive terminal, and call download_extension.  What comes before
\* (timeout, proxy, debug, the connectivity check) only prints or sets
\* request options.
Main(p) ==
    /\ pc[p] = "main"
    /\ LET parsed == parse_extension_id(extension_id[p]) IN
       /\ publisher' = [publisher EXCEPT ![p] = parsed[1]]
       /\ extension' = [extension EXCEPT ![p] = parsed[2]]
       /\ IF Falsy(parsed[1]) \/ Falsy(parsed[2])
          THEN /\ exitCode' = [exitCode EXCEPT ![p] = 1]
               /\ pc' = [pc EXCEPT ![p] = "exited"]
               /\ UNCHANGED <<version, versionArg, prompted>>
          ELSE /\ \E isatty \in BOOLEAN :
                    IF version[p] = "" /\ isatty /\ ~skip_version_check[p]
                    THEN /\ \E typed \in PromptInputs :
                              version' = [version EXCEPT ![p] = typed]
                         /\ prompted' = [prompted EXCEPT ![p] = TRUE]
                    ELSE UNCHANGED <<version, prompted>>
               /\ versionArg' = [versionArg EXCEPT ![p] = version'[p]]
               /\ pc' = [pc EXCEPT ![p] = "download_extension"]
               /\ UNCHANGED exitCode
    /\ UNCHANGED <<fsVars, extension_id, skip_version_check, verVars, dlVars,
                   success, metaHist, dlHist, attempt, sleeps>>

\* main exiting with 0 whatever download_extension returned.
MainExit_AlwaysZero(p) ==
    /\ pc[p] = "return"
    /\ exitCode' = [exitCode EXCEPT ![p] = 0]
    /\ pc' = [pc EXCEPT ![p] = "exited"]
    /\ UNCHANGED <<fsVars, argVars, verVars, dlVars, success, metaHist, dlHist,
                   attempt, prompted, sleeps>>

\* main (src/vsixget.py:362-372): sys.exit(0 if success else 1).
MainExit(p) ==
    /\ pc[p] = "return"
    /\ exitCode' = [exitCode EXCEPT ![p] = IF success[p] THEN 0 ELSE 1]
    /\ pc' = [pc EXCEPT ![p] = "exited"]
    /\ UNCHANGED <<fsVars, argVars, verVars, dlVars, success, metaHist, dlHist,
                   attempt, prompted, sleeps>>

\* ------------------------------------------------------- version resolution

\* The filename (src/vsixget.py:171): publisher.extension-label.vsix.
Filename(pub, ext, label) == pub \o <<".">> \o ext \o <<"-", label, ".vsix">>

\* The end of the version stage (src/vsixget.py:162-172, 279-283): base_url,
\* the filename, and the call of download_file for the platform URL.
StartDownload(p, label, segment) ==
    /\ actual_version' = [actual_version EXCEPT ![p] = label]
    /\ base_url' = [base_url EXCEPT ![p] = segment]
    /\ filename' = [filename EXCEPT ![p] = Filename(publisher[p], extension[p], label)]
    /\ candidate' = [candidate EXCEPT ![p] = "platform"]
    /\ pc' = [pc EXCEPT ![p] = "df_start"]

\* download_extension without the "latest" default of the version label.
DownloadExtension_NoDefault(p) ==
    /\ pc[p] = "download_extension"
    /\ dirExists' = TRUE
    /\ IF version[p] = ""
       THEN IF ~skip_version_check[p]
            THEN /\ actual_version' = actual_version
                 /\ attempt' = [attempt EXCEPT ![p] = 0]
                 /\ sleeps' = [sleeps EXCEPT ![p] = <<>>]
                 /\ pc' = [pc EXCEPT ![p] = "resolve"]
                 /\ UNCHANGED <<base_url, filename, candidate>>
            ELSE /\ StartDownload(p, "latest", "latest")
                 /\ UNCHANGED <<attempt, sleeps>>
       ELSE /\ StartDownload(p, version[p], version[p])
            /\ UNCHANGED <<attempt, sleeps>>
    /\ UNCHANGED <<disk, tmpIno, finalIno, before, served, argVars, fd, fpos, stream,
                   endVars, metaHist, dlHist, prompted>>

\* download_extension looking the version up although told to skip that.
DownloadExtension_IgnoresSkip(p) ==
    /\ pc[p] = "download_extension"
    /\ dirExists' = TRUE
    /\ IF version[p] = ""
       THEN IF TRUE
            THEN /\ actual_version' = [actual_version EXCEPT ![p] = "latest"]
                 /\ attempt' = [attempt EXCEPT ![p] = 0]
                 /\ sleeps' = [sleeps EXCEPT ![p] = <<>>]
                 /\ pc' = [pc EXCEPT ![p] = "resolve"]
                 /\ UNCHANGED <<base_url, filename, candidate>>
            ELSE /\ StartDownload(p, "latest", "latest")
                 /\ UNCHANGED <<attempt, sleeps>>
       ELSE /\ StartDownload(p, version[p], version[p])
            /\ UNCHANGED <<attempt, sleeps>>
    /\ UNCHANGED <<disk, tmpIno, finalIno, before, served, argVars, fd, fpos, stream,
                   endVars, metaHist, dlHist, prompted>>

\* download_extension (src/vsixget.py:108-118, 166-168): make the directory;
\* with a version, or with skip_version_check, go on to the download.
DownloadExtension(p) ==
    /\ pc[p] = "download_extension"
    /\ dirExists' = TRUE
    /\ IF version[p] = ""
       THEN IF ~skip_version_check[p]
            THEN /\ actual_version' = [actual_version EXCEPT ![p] = "latest"]
                 /\ attempt' = [attempt EXCEPT ![p] = 0]
                 /\ sleeps' = [sleeps EXCEPT ![p] = <<>>]
                 /\ pc' = [pc EXCEPT ![p] = "resolve"]
                 /\ UNCHANGED <<base_url, filename, candidate>>
            ELSE /\ StartDownload(p, "latest", "latest")
                 /\ UNCHANGED <<attempt, sleeps>>
       ELSE /\ StartDownload(p, version[p], version[p])
            /\ UNCHANGED <<attempt, sleeps>>
    /\ UNCHANGED <<disk, tmpIno, finalIno, before, served, argVars, fd, fpos, stream,
                   endVars, metaHist, dlHist, prompted>>

\* The metadata response carries a version (src/vsixget.py:130-132).
HasVersion(r) ==
    r.kind = "response" /\ r.status = 200 /\ r.json /\ r.hasVersions
        /\ Len(r.versions) > 0

\* How the history names a metadata outcome.
MetaLabel(r) ==
    IF HasVersion(r) THEN "resolved"
    ELSE IF r.kind = "response" /\ r.status = 200 THEN "malformed"
    ELSE Label(r)

\* The loop stopping only when a version was found: a 404 is retried.
MetaBreaks_OnlyOnVersion(r) == HasVersion(r)

\* The attempt stops the loop (src/vsixget.py:136, 145-147).
MetaBreaks(r) == HasVersion(r) \/ (r.kind = "response" /\ r.status = 404)

\* The backoff slept after every attempt, the last one included.
Backoff_AfterLastToo(slept, att) == Append(slept, 2 ^ att)

\* The backoff of a retry loop (src/vsixget.py:157-160, 271-274): the delays
\* slept so far, with this attempt's added unless it is the last one.
Backoff(slept, att) ==
    IF att < MAX_RETRIES - 1 THEN Append(slept, 2 ^ att) ELSE slept

\* The version stage taking the last entry of the versions list.
VersionAttempt_PicksOldest(p) ==
    /\ pc[p] = "resolve"
    /\ attempt[p] < MAX_RETRIES
    /\ \E r \in MetaResponses :
         /\ metaReqs' = [metaReqs EXCEPT ![p] = @ + 1]
         /\ metaLast' = [metaLast EXCEPT ![p] = MetaLabel(r)]
         /\ metaFell' = [metaFell EXCEPT ![p] =
                            @ \/ (r.kind = "response" /\ ~MetaBreaks(r))]
         /\ IF HasVersion(r)
            THEN /\ version' = [version EXCEPT ![p] = r.versions[Len(r.versions)]]
                 /\ StartDownload(p, r.versions[Len(r.versions)], "latest")
                 /\ UNCHANGED <<attempt, sleeps>>
            ELSE IF MetaBreaks(r)
            THEN /\ StartDownload(p, actual_version[p], "latest")
                 /\ UNCHANGED <<version, attempt, sleeps>>
            ELSE /\ sleeps' = [sleeps EXCEPT ![p] = Backoff(@, attempt[p])]
                 /\ attempt' = [attempt EXCEPT ![p] = @ + 1]
                 /\ IF attempt[p] + 1 < MAX_RETRIES
                    THEN UNCHANGED <<verVars, candidate, pc>>
                    ELSE StartDownload(p, actual_version[p], "latest")
                 /\ UNCHANGED version
    /\ UNCHANGED <<fsVars, extension_id, versionArg, skip_version_check,
                   publisher, extension, fd, fpos, stream, endVars, dlHist,
                   prompted>>

\* One iteration of the metadata loop (src/vsixget.py:119-160), and, when
\* it is the last one, the code after the loop.
VersionAttempt(p) ==
    /\ pc[p] = "resolve"
    /\ attempt[p] < MAX_RETRIES
    /\ \E r \in MetaResponses :
         /\ metaReqs' = [metaReqs EXCEPT ![p] = @ + 1]
         /\ metaLast' = [metaLast EXCEPT ![p] = MetaLabel(r)]
         /\ metaFell' = [metaFell EXCEPT ![p] =
                            @ \/ (r.kind = "response" /\ ~MetaBreaks(r))]
         /\ IF HasVersion(r)
            THEN /\ version' = [version EXCEPT ![p] = r.versions[1]]
                 /\ StartDownload(p, r.versions[1], "latest")
                 /\ UNCHANGED <<attempt, sleeps>>
            ELSE IF MetaBreaks(r)
            THEN /\ StartDownload(p, actual_version[p], "latest")
                 /\ UNCHANGED <<version, attempt, sleeps>>
            ELSE /\ sleeps' = [sleeps EXCEPT ![p] = Backoff(@, attempt[p])]
                 /\ attempt' = [attempt EXCEPT ![p] = @ + 1]
                 /\ IF attempt[p] + 1 < MAX_RETRIES
                    THEN UNCHANGED <<verVars, candidate, pc>>
                    ELSE StartDownload(p, actual_version[p], "latest")
                 /\ UNCHANGED version
    /\ UNCHANGED <<fsVars, extension_id, versionArg, skip_version_check,
                   publisher, extension, fd, fpos, stream, endVars, dlHist,
                   prompted>>

\* ----------------------------------------------------------------- download

\* download_extension giving up after the first download_file call.
DfReturn_NoFallback(p, ok, how) ==
    /\ outcome' = [outcome EXCEPT ![p][candidate[p]] = how]
    /\ success' = [success EXCEPT ![p] = ok]
    /\ pc' = [pc EXCEPT ![p] = "return"]
    /\ UNCHANGED candidate

\* download_extension calling download_file for the universal URL whatever
\* the platform call returned.
DfReturn_AlwaysFallsBack(p, ok, how) ==
    /\ outcome' = [outcome EXCEPT ![p][candidate[p]] = how]
    /\ IF candidate[p] = "platform"
       THEN /\ candidate' = [candidate EXCEPT ![p] = "universal"]
            /\ pc' = [pc EXCEPT ![p] = "df_start"]
            /\ UNCHANGED success
       ELSE /\ success' = [success EXCEPT ![p] = ok]
            /\ pc' = [pc EXCEPT ![p] = "return"]
            /\ UNCHANGED candidate

\* download_file returns to download_extension (src/vsixget.py:283-294):
\* True ends the run with success, False of the platform call starts the
\* universal call, False of the universal call ends the run with failure.
DfReturn(p, ok, how) ==
    /\ outcome' = [outcome EXCEPT ![p][candidate[p]] = how]
    /\ IF ok
       THEN /\ success' = [success EXCEPT ![p] = TRUE]
            /\ pc' = [pc EXCEPT ![p] = "return"]
            /\ UNCHANGED candidate
       ELSE IF candidate[p] = "platform"
       THEN /\ candidate' = [candidate EXCEPT ![p] = "universal"]
            /\ pc' = [pc EXCEPT ![p] = "df_start"]
            /\ UNCHANGED success
       ELSE /\ success' = [success EXCEPT ![p] = FALSE]
            /\ pc' = [pc EXCEPT ![p] = "return"]
            /\ UNCHANGED candidate

\* os.remove(temp_path) when it exists, with fds the open files afterwards.
RemoveTemp(fds) ==
    /\ tmpIno' = 0
    /\ disk' = Reclaim(disk, 0, finalIno, fds)

\* The end of a failed attempt without the removal of the partial file.
DfFailAttempt_KeepsPartial(p, fds) ==
    /\ tmpIno' = tmpIno
    /\ disk' = Reclaim(disk, tmpIno, finalIno, fds)
    /\ sleeps' = [sleeps EXCEPT ![p] = Backoff(@, attempt[p])]
    /\ attempt' = [attempt EXCEPT ![p] = @ + 1]
    /\ IF attempt[p] + 1 < MAX_RETRIES
       THEN /\ pc' = [pc EXCEPT ![p] = "df_get"]
            /\ UNCHANGED <<candidate, outcome, success>>
       ELSE DfReturn(p, FALSE, "exhausted")

\* The end of a failed attempt that does not count the attempt.
DfFailAttempt_NoCount(p, fds) ==
    /\ RemoveTemp(fds)
    /\ sleeps' = [sleeps EXCEPT ![p] = Backoff(@, attempt[p])]
    /\ attempt' = attempt
    /\ IF attempt[p] + 1 < MAX_RETRIES
       THEN /\ pc' = [pc EXCEPT ![p] = "df_get"]
            /\ UNCHANGED <<candidate, outcome, success>>
       ELSE DfReturn(p, FALSE, "exhausted")

\* The end of a failed attempt (src/vsixget.py:266-277): the partial file is
\* removed, the backoff is slept unless this was the last attempt, and the
\* loop goes on or download_file returns False.
DfFailAttempt(p, fds) ==
    /\ RemoveTemp(fds)
    /\ sleeps' = [sleeps EXCEPT ![p] = Backoff(@, attempt[p])]
    /\ attempt' = [attempt EXCEPT ![p] = @ + 1]
    /\ IF attempt[p] + 1 < MAX_RETRIES
       THEN /\ pc' = [pc EXCEPT ![p] = "df_get"]
            /\ UNCHANGED <<candidate, outcome, success>>
       ELSE DfReturn(p, FALSE, "exhausted")

\* download_file starting its loop without looking for a stale temp file.
DfStart_KeepsStale(p) ==
    /\ pc[p] = "df_start"
    /\ UNCHANGED <<tmpIno, disk>>
    /\ attempt' = [attempt EXCEPT ![p] = 0]
    /\ sleeps' = [sleeps EXCEPT ![p] = <<>>]
    /\ dlLast' = [dlLast EXCEPT ![p] = "none"]
    /\ pc' = [pc EXCEPT ![p] = "df_get"]
    /\ UNCHANGED <<finalIno, dirExists, before, served, argVars, verVars, dlVars,
                   endVars, metaHist, dlReqs, outcome, commits, prompted>>

\* download_file (src/vsixget.py:197-207): remove a temp file left behind.
DfStart(p) ==
    /\ pc[p] = "df_start"
    /\ RemoveTemp(fd)
    /\ attempt' = [attempt EXCEPT ![p] = 0]
    /\ sleeps' = [sleeps EXCEPT ![p] = <<>>]
    /\ dlLast' = [dlLast EXCEPT ![p] = "none"]
    /\ pc' = [pc EXCEPT ![p] = "df_get"]
    /\ UNCHANGED <<finalIno, dirExists, before, served, argVars, verVars, dlVars,
                   endVars, metaHist, dlReqs, outcome, commits, prompted>>

\* open(temp_path, 'wb') by p: the file at the path is truncated, or a new
\* one is created.
OpenTemp(p) ==
    LET ino == IF tmpIno # 0 THEN tmpIno ELSE FreshInode(tmpIno, finalIno, fd) IN
    /\ tmpIno' = ino
    /\ fd' = [fd EXCEPT ![p] = ino]
    /\ fpos' = [fpos EXCEPT ![p] = 0]
    /\ disk' = [disk EXCEPT ![ino] = <<>>]

\* download_file treating a 404 like any other failed status.
DownloadNotFound_Never(r) == FALSE

\* download_file giving up on every status other than 200.
DownloadNotFound_AnyStatus(r) == r.kind = "response" /\ r.status # 200

\* The response says the resource does not exist (src/vsixget.py:256).
DownloadNotFound(r) == r.kind = "response" /\ r.status = 404

\* One request of the download loop (src/vsixget.py:209-223, 250-264): on
\* 200 the temp file is opened for the body, 404 returns False at once, any
\* other status and any exception end the attempt.
DfGet(p) ==
    /\ pc[p] = "df_get"
    /\ attempt[p] < MAX_RETRIES
    /\ \E r \in served :
         /\ dlReqs' = [dlReqs EXCEPT ![p][candidate[p]] = @ + 1]
         /\ dlLast' = [dlLast EXCEPT ![p] = Label(r)]
         /\ IF r.kind = "response" /\ r.status = 200
            THEN /\ OpenTemp(p)
                 /\ stream' = [stream EXCEPT ![p] = r.body]
                 /\ pc' = [pc EXCEPT ![p] = "df_stream"]
                 /\ UNCHANGED <<candidate, outcome, success, attempt, sleeps>>
            ELSE IF DownloadNotFound(r)
            THEN /\ DfReturn(p, FALSE, "notfound")
                 /\ UNCHANGED <<disk, tmpIno, fd, fpos, stream, attempt, sleeps>>
            ELSE /\ DfFailAttempt(p, fd)
                 /\ UNCHANGED <<fd, fpos, stream>>
    /\ UNCHANGED <<finalIno, dirExists, before, served, argVars, verVars, exitCode,
                   metaHist, commits, prompted>>

\* One chunk of the body (src/vsixget.py:230-233): empty chunks are skipped.
DfWrite(p) ==
    /\ pc[p] = "df_stream"
    /\ stream[p] # <<>>
    /\ LET chunk == Head(stream[p]) IN
       IF chunk # ""
       THEN /\ disk' = [disk EXCEPT ![fd[p]] = WriteAt(@, fpos[p], chunk)]
            /\ fpos' = [fpos EXCEPT ![p] = @ + 1]
       ELSE UNCHANGED <<disk, fpos>>
    /\ stream' = [stream EXCEPT ![p] = Tail(@)]
    /\ UNCHANGED <<tmpIno, finalIno, dirExists, before, served, argVars, verVars,
                   candidate, fd, endVars, metaHist, dlHist, pc, attempt,
                   prompted, sleeps>>

\* iter_content raises while the body is read (src/vsixget.py:230, 259-268):
\* the file is closed and the attempt ends.
DfStreamError(p) ==
    /\ pc[p] = "df_stream"
    /\ dlLast' = [dlLast EXCEPT ![p] = "StreamError"]
    /\ fd' = [fd EXCEPT ![p] = 0]
    /\ stream' = [stream EXCEPT ![p] = <<>>]
    /\ fpos' = [fpos EXCEPT ![p] = 0]
    /\ DfFailAttempt(p, fd')
    /\ UNCHANGED <<finalIno, dirExists, before, served, argVars, verVars, exitCode,
                   metaHist, dlReqs, commits, prompted>>

\* The verification step treating an invalid file like a failed attempt:
\* cleanup, backoff and another request.
DfVerify_RetriesInvalid(p) ==
    /\ pc[p] = "df_stream"
    /\ stream[p] = <<>>
    /\ fd' = [fd EXCEPT ![p] = 0]
    /\ fpos' = [fpos EXCEPT ![p] = 0]
    /\ IF verify_vsix(Content(tmpIno))
       THEN /\ pc' = [pc EXCEPT ![p] = "df_replace"]
            /\ disk' = Reclaim(disk, tmpIno, finalIno, fd')
            /\ UNCHANGED <<tmpIno, candidate, outcome, success, attempt, sleeps>>
       ELSE DfFailAttempt(p, fd')
    /\ UNCHANGED <<finalIno, dirExists, before, served, argVars, verVars, stream,
                   exitCode, metaHist, dlReqs, dlLast, commits, prompted>>

\* The verification step removing output_path, not temp_path, when the file
\* is invalid.
DfVerify_RemovesOutput(p) ==
    /\ pc[p] = "df_stream"
    /\ stream[p] = <<>>
    /\ fd' = [fd EXCEPT ![p] = 0]
    /\ fpos' = [fpos EXCEPT ![p] = 0]
    /\ IF verify_vsix(Content(tmpIno))
       THEN /\ pc' = [pc EXCEPT ![p] = "df_replace"]
            /\ disk' = Reclaim(disk, tmpIno, finalIno, fd')
            /\ UNCHANGED <<tmpIno, finalIno, candidate, outcome, success>>
       ELSE /\ finalIno' = 0
            /\ tmpIno' = tmpIno
            /\ disk' = Reclaim(disk, tmpIno, 0, fd')
            /\ DfReturn(p, FALSE, "invalid")
    /\ UNCHANGED <<dirExists, before, served, argVars, verVars, stream,
                   exitCode, metaHist, dlReqs, dlLast, commits, attempt,
                   prompted, sleeps>>

\* The body has ended (src/vsixget.py:237-249): the file is closed and
\* verified; an invalid file is removed and download_file returns False
\* without another attempt.
DfVerify(p) ==
    /\ pc[p] = "df_stream"
    /\ stream[p] = <<>>
    /\ fd' = [fd EXCEPT ![p] = 0]
    /\ fpos' = [fpos EXCEPT ![p] = 0]
    /\ IF verify_vsix(Content(tmpIno))
       THEN /\ pc' = [pc EXCEPT ![p] = "df_replace"]
            /\ disk' = Reclaim(disk, tmpIno, finalIno, fd')
            /\ UNCHANGED <<tmpIno, candidate, outcome, success>>
       ELSE /\ RemoveTemp(fd')
            /\ DfReturn(p, FALSE, "invalid")
    /\ UNCHANGED <<finalIno, dirExists, before, served, argVars, verVars, stream,
                   exitCode, metaHist, dlReqs, dlLast, commits, attempt,
                   prompted, sleeps>>

\* os.replace(temp_path, output_path) (src/vsixget.py:240-242): the temp
\* file becomes the file at output_path and download_file returns True.
\* With no file at temp_path it raises, which ends the attempt.
DfReplace(p) ==
    /\ pc[p] = "df_replace"
    /\ IF tmpIno # 0
       THEN /\ finalIno' = tmpIno
            /\ tmpIno' = 0
            /\ disk' = Reclaim(disk, 0, tmpIno, fd)
            /\ commits' = [commits EXCEPT ![p] = @ + 1]
            /\ DfReturn(p, TRUE, "committed")
            /\ UNCHANGED <<attempt, sleeps, dlLast>>
       ELSE /\ dlLast' = [dlLast EXCEPT ![p] = "Exception"]
            /\ DfFailAttempt(p, fd)
            /\ UNCHANGED <<finalIno, commits>>
    /\ UNCHANGED <<dirExists, before, served, argVars, verVars, fd, fpos, stream,
                   exitCode, metaHist, dlReqs, prompted>>

\* ---------------------------------------------------------- specification

Next ==
    \E p \in Procs :
        \/ Main(p)
        \/ DownloadExtension(p)
        \/ VersionAttempt(p)
        \/ DfStart(p)
        \/ DfGet(p)
        \/ DfWrite(p)
        \/ DfStreamError(p)
        \/ DfVerify(p)
        \/ DfReplace(p)
        \/ MainExit(p)

Spec == Init /\ [][Next]_vars

\* A run in which the interpreter keeps executing: every request returns or
\* raises, every read of the body yields or raises, so a step that can be
\* taken is taken.  It starts in an existing directory with no file at
\* output_path.
InitFair == Init /\ dirExists /\ before.final = Absent

SpecFair == InitFair /\ [][Next]_vars /\ WF_vars(Next)

\* Two invocations for the same identifier, version and directory, started
\* together on an empty directory.  The version is given, so neither looks
\* it up and both use the same output_path and temp_path.  The server
\* answers a request with the package or with 404; a body may break off.
InitConc ==
    /\ InitFor(Procs)
    /\ served = { [kind |-> "response", status |-> 200, body |-> Archive(MaxEntries)],
                  [kind |-> "response", status |-> 404, body |-> <<>>] }
    /\ dirExists
    /\ before = [final |-> Absent, temp |-> Absent]
    /\ \A p \in Procs :
         /\ extension_id[p] = RawId(<<"p", ".", "e">>)
         /\ version[p] = "1.0"
         /\ ~skip_version_check[p]

\* The steps of invocations that were given a version: Next without the
\* metadata loop, which such an invocation does not enter.
NextConc ==
    \E p \in Procs :
        \/ Main(p)
        \/ DownloadExtension(p)
        \/ DfStart(p)
        \/ DfGet(p)
        \/ DfWrite(p)
        \/ DfStreamError(p)
        \/ DfVerify(p)
        \/ DfReplace(p)
        \/ MainExit(p)

SpecConc == InitConc /\ [][NextConc]_vars

\* Longest identifier text the parsing runs are given.
MaxIdLen == 3

\* Characters of the identifiers the parsing runs are given: a letter, the
\* dot, and a newline (in a URL, what %0A decodes to).
IdChars == {"p", ".", "\n"}

\* All sequences over chars of length at most n.
RECURSIVE SeqsUpTo(_, _)
SeqsUpTo(chars, n) ==
    IF n = 0 THEN {<<>>}
    ELSE LET shorter == SeqsUpTo(chars, n - 1) IN
         shorter \cup {Append(t, c) : t \in shorter, c \in chars}

\* Every identifier text up to MaxIdLen, given as it is and given as the
\* itemName parameter of a marketplace URL.
ParseInputs ==
    LET texts == SeqsUpTo(IdChars, MaxIdLen) IN
    {RawId(t) : t \in texts}
    \cup {UrlId("https://", << [key |-> "itemName", val |-> t] >>) : t \in texts}

\* A run up to the call of download_extension, for every such identifier.
InitParse ==
    /\ InitWith({1}, ParseInputs)
    /\ served = DownloadResponses
    /\ ~dirExists
    /\ \A p \in Procs : version[p] = "" /\ ~skip_version_check[p]

NextParse == \E p \in Procs : Main(p)

SpecParse == InitParse /\ [][NextParse]_vars

\* Every value is of its kind.
TypeOK ==
    /\ tmpIno \in Inodes \cup {0}
    /\ finalIno \in Inodes \cup {0}
    /\ \A p \in Procs :
         /\ pc[p] \in {"off", "main", "download_extension", "resolve", "df_start",
                       "df_get", "df_stream", "df_replace", "return", "exited"}
         /\ attempt[p] \in 0 .. MAX_RETRIES
         /\ fd[p] \in Inodes \cup {0}
         /\ exitCode[p] \in {-1, 0, 1}
         /\ metaReqs[p] \in 0 .. MAX_RETRIES

\* ------------------------------------------------------------------- claims

\* The invocation Spec runs.
Run == CHOOSE p \in Procs : \A q \in Procs : p <= q

\* download_extension has returned in invocation p.
Returned(p) ==
    \/ pc[p] = "return"
    \/ pc[p] = "exited" /\ outcome[p]["platform"] # "none"

\* A file that is a complete archive.
CompleteArchive(content) == content # Absent /\ IsZipFile(content)

\* C1: in every state of a run that starts with no file or a valid archive
\* at the final path, the final path holds no file or a complete archive
\* that verify_vsix accepts; once the run has committed, the committed file
\* is there and verifies.
C1_FinalAbsentOrValid ==
    (before.final = Absent \/ CompleteArchive(before.final)) =>
        /\ \/ Content(finalIno) = Absent
           \/ CompleteArchive(Content(finalIno)) /\ verify_vsix(Content(finalIno))
        /\ commits[Run] > 0 =>
               CompleteArchive(Content(finalIno)) /\ verify_vsix(Content(finalIno))

\* C1 witness: a commit onto a path that held nothing, after an attempt whose
\* body was cut off.
C1_Witness ==
    /\ before.final = Absent
    /\ commits[Run] = 1
    /\ attempt[Run] > 0
    /\ verify_vsix(Content(finalIno))

\* C2: when download_extension has returned, with success or with failure,
\* no file is at temp_path.
C2_NoTempAfterReturn == Returned(Run) => tmpIno = 0

\* C2 witness: a failed run that started with a stale temp file and wrote a
\* partial body in its last attempt.
C2_Witness ==
    /\ Returned(Run)
    /\ ~success[Run]
    /\ before.temp # Absent
    /\ dlLast[Run] = "StreamError"
    /\ outcome[Run]["universal"] = "exhausted"

\* C3: a run that ends in failure leaves the final path as it was; a
\* candidate whose body fails verification leaves no temp file and, unless
\* the run commits later, the final path as it was.
C3_FailureLeavesFinal ==
    /\ (Returned(Run) /\ ~success[Run]) => Content(finalIno) = before.final
    /\ \A c \in Candidates :
         (outcome[Run][c] = "invalid" /\ commits[Run] = 0) =>
             /\ Content(finalIno) = before.final
             /\ (pc[Run] = "df_start" \/ Returned(Run)) => tmpIno = 0

\* C3 witness: a failed run over an earlier archive, the platform body
\* having failed verification.
C3_Witness ==
    /\ Returned(Run)
    /\ ~success[Run]
    /\ before.final # Absent
    /\ outcome[Run]["platform"] = "invalid"

\* The failures of a download_file call.
Failures == {"notfound", "exhausted", "invalid"}

\* C4: a platform call that fails, for whichever reason, is followed by the
\* universal call; a universal body that is read to its end and is a valid
\* archive is committed and ends the run in success, with the file at the
\* final path; a run fails only when both calls have failed.
C4_FallbackToUniversal ==
    /\ [][ (outcome[Run]["platform"] = "none"
                /\ outcome'[Run]["platform"] \in Failures)
             => (pc'[Run] = "df_start" /\ candidate'[Run] = "universal") ]_vars
    /\ [][ (candidate[Run] = "universal" /\ pc[Run] = "df_stream"
                /\ pc'[Run] # "df_stream" /\ dlLast'[Run] # "StreamError"
                /\ CompleteArchive(Content(tmpIno)))
             => pc'[Run] = "df_replace" ]_vars
    /\ [][ (candidate[Run] = "universal" /\ pc[Run] = "df_replace")
             => (pc'[Run] = "return" /\ success'[Run]
                   /\ CompleteArchive(Content(finalIno'))) ]_vars
    /\ [] ( (Returned(Run) /\ ~success[Run])
             => \A c \in Candidates : outcome[Run][c] \in Failures )

\* C4 witness: 404 for the platform URL, then the universal archive
\* committed, and no temp file left.
C4_Witness ==
    /\ outcome[Run]["platform"] = "notfound"
    /\ outcome[Run]["universal"] = "committed"
    /\ success[Run]
    /\ CompleteArchive(Content(finalIno))
    /\ tmpIno = 0

\* C5: the exit code is 0 exactly when the run committed a file, and 1 in
\* every other case, an identifier that does not parse included.
C5_ExitCode ==
    pc[Run] = "exited" =>
        /\ exitCode[Run] \in {0, 1}
        /\ exitCode[Run] = 0 <=> commits[Run] > 0
        /\ (Falsy(publisher[Run]) \/ Falsy(extension[Run])) => exitCode[Run] = 1

\* C5 witness: exit code 1 after a verification failure and exhausted
\* retries.
C5_Witness ==
    /\ pc[Run] = "exited"
    /\ exitCode[Run] = 1
    /\ outcome[Run]["platform"] = "invalid"
    /\ outcome[Run]["universal"] = "exhausted"

\* C6: after a metadata attempt has received 404 no further metadata request
\* is issued, however many attempts remain, and the attempt that received
\* it sleeps no backoff and leaves the loop.
C6_NoRetryAfterMeta404 ==
    [][ /\ metaLast[Run] = "404" => metaReqs'[Run] = metaReqs[Run]
        /\ (metaReqs'[Run] # metaReqs[Run] /\ metaLast'[Run] = "404")
             => (sleeps'[Run] = sleeps[Run] /\ pc'[Run] # "resolve") ]_vars

\* C6 witness: 404 on the first of the three attempts, and the run has gone
\* on with a single metadata request made.
C6_Witness ==
    /\ metaLast[Run] = "404"
    /\ metaReqs[Run] = 1
    /\ pc[Run] = "df_get"

\* C7: after a metadata 404 the run reports the absence: it does not build
\* the filename with the label "latest" and request the "latest" download
\* URLs.
C7_Meta404NotLatest ==
    ~ /\ metaLast[Run] = "404"
      /\ filename[Run] = Filename(publisher[Run], extension[Run], "latest")
      /\ base_url[Run] = "latest"
      /\ dlReqs[Run]["platform"] > 0

\* The version stage of invocation p is over and the download stage entered.
InDownloadStage(p) ==
    pc[p] \in {"df_start", "df_get", "df_stream", "df_replace"} \/ Returned(p)

\* The label is "latest" and the run downloads under it.
LatestAndDownloading(p) ==
    /\ InDownloadStage(p)
    /\ actual_version[p] = "latest"
    /\ filename[p] = Filename(publisher[p], extension[p], "latest")
    /\ Returned(p) => dlReqs[p]["platform"] > 0

\* C8 as stated: once some metadata attempt has returned a status other than
\* 200 and 404, or a 200 without a non-empty versions list, the label is
\* "latest" and the run goes on to the download stage.
C8_AnyFailedAttemptMeansLatest ==
    (metaFell[Run] /\ pc[Run] # "resolve") => LatestAndDownloading(Run)

\* C8 amended: the same, when no later attempt of the run finds a version.
C8_FailedLookupMeansLatest ==
    (metaFell[Run] /\ metaLast[Run] # "resolved" /\ pc[Run] # "resolve")
        => LatestAndDownloading(Run)

\* C8 witness: three attempts, the last one a 200 without versions, and the
\* platform URL requested under the label "latest".
C8_Witness ==
    /\ metaFell[Run]
    /\ metaLast[Run] = "malformed"
    /\ metaReqs[Run] = 3
    /\ actual_version[Run] = "latest"
    /\ dlReqs[Run]["platform"] > 0

\* C9: no metadata request with an explicit version or with
\* skip_version_check; otherwise at least one, once the version stage is
\* over, and never more than three.
C9_MetaRequestCount ==
    /\ metaReqs[Run] <= 3
    /\ (versionArg[Run] # "" \/ skip_version_check[Run]) => metaReqs[Run] = 0
    /\ (versionArg[Run] = "" /\ ~skip_version_check[Run] /\ InDownloadStage(Run))
           => metaReqs[Run] >= 1

\* C9 witness: a run with skip_version_check and no version that has
\* requested a download without any metadata request.
C9_Witness ==
    /\ skip_version_check[Run]
    /\ versionArg[Run] = ""
    /\ metaReqs[Run] = 0
    /\ dlReqs[Run]["platform"] > 0

\* A step that requests a URL again does so after one of the outcomes in
\* retried.
RetriesOnlyAfter(retried) ==
    \A c \in Candidates :
        (dlReqs[Run][c] > 0 /\ dlReqs'[Run][c] > dlReqs[Run][c])
            => dlLast[Run] \in retried

\* A step that receives 404 for a download URL ends the candidate at once:
\* no backoff, and the next candidate, or the end of the run, follows.
NotFoundEndsCandidate ==
    (dlReqs'[Run] # dlReqs[Run] /\ dlLast'[Run] = "404")
        => /\ sleeps'[Run] = sleeps[Run]
           /\ outcome'[Run][candidate[Run]] = "notfound"
           /\ IF candidate[Run] = "platform"
              THEN pc'[Run] = "df_start" /\ candidate'[Run] = "universal"
              ELSE pc'[Run] = "return"

\* C10 as stated: at most three requests per candidate; a further request
\* of the same URL only after a timeout or a connection error; a 404 ends
\* the candidate at once.
C10_RetryOnlyOnTransportError ==
    /\ [] (\A c \in Candidates : dlReqs[Run][c] <= 3)
    /\ [][ RetriesOnlyAfter({"Timeout", "ConnectionError"}) ]_vars
    /\ [][ NotFoundEndsCandidate ]_vars

\* C10 amended: at most three requests per candidate; a further request of
\* the same URL only after a timeout, a connection error, another exception
\* (at the request or while the body is read) or a status other than 200
\* and 404; a 404 ends the candidate at once.
C10_RetryOnAnyFailedAttempt ==
    /\ [] (\A c \in Candidates : dlReqs[Run][c] <= 3)
    /\ [][ RetriesOnlyAfter({"Timeout", "ConnectionError", "Exception",
                             "StreamError", "500"}) ]_vars
    /\ [][ NotFoundEndsCandidate ]_vars

\* C10 witness: three requests of the platform URL, the last after a
\* status 500, then a 404 for the universal URL ending the run.
C10_Witness ==
    /\ dlReqs[Run]["platform"] = 3
    /\ outcome[Run]["platform"] = "exhausted"
    /\ dlReqs[Run]["universal"] = 1
    /\ outcome[Run]["universal"] = "notfound"
    /\ pc[Run] = "return"

\* C11: a candidate whose 200 body was written in full and fails
\* verification fails at once: the step sleeps no backoff and hands over to
\* the next candidate (or ends the run), and that URL is not requested again
\* although attempts remain.
C11_InvalidEndsCandidate ==
    /\ [][ (pc[Run] = "df_stream" /\ pc'[Run] # "df_stream"
                /\ dlLast'[Run] = "200"
                /\ ~CompleteArchive(Content(tmpIno)))
             => /\ outcome'[Run][candidate[Run]] = "invalid"
                /\ sleeps'[Run] = sleeps[Run]
                /\ attempt'[Run] = attempt[Run]
                /\ pc'[Run] \in {"df_start", "return"} ]_vars
    /\ [][ \A c \in Candidates :
             outcome[Run][c] = "invalid"
                 => dlReqs'[Run][c] = dlReqs[Run][c] ]_vars

\* C11 witness: the first response for the platform URL was a 200 that is
\* no archive; the universal URL is being requested and the platform URL
\* was requested once.
C11_Witness ==
    /\ outcome[Run]["platform"] = "invalid"
    /\ dlReqs[Run]["platform"] = 1
    /\ dlReqs[Run]["universal"] > 0

\* C12: with two invocations for the same identifier, version and directory
\* running together, under every interleaving of their file operations the
\* final path holds no file or a complete archive, and between one
\* invocation's verification and its rename the temp file is the verified
\* one, open in no other invocation.
C12_ConcurrentCommitIsAtomic ==
    /\ Content(finalIno) = Absent \/ CompleteArchive(Content(finalIno))
    /\ \A p \in Procs :
         pc[p] = "df_replace" =>
             /\ CompleteArchive(Content(tmpIno))
             /\ \A q \in Procs \ {p} : fd[q] = 0 \/ fd[q] # tmpIno

\* The sum of a sequence of numbers.
RECURSIVE SumSeq(_)
SumSeq(q) == IF q = <<>> THEN 0 ELSE Head(q) + SumSeq(Tail(q))

\* C13: in the metadata loop and in the download loop alike, the delay slept
\* after the k-th failed attempt is 2^(k-1) seconds (1, then 2), nothing is
\* slept after the third, and a loop sleeps 3 seconds at most.
C13_BackoffDelays ==
    /\ \A k \in 1 .. Len(sleeps[Run]) : sleeps[Run][k] = 2 ^ (k - 1)
    /\ Len(sleeps[Run]) = IF attempt[Run] < 3 THEN attempt[Run] ELSE 2
    /\ SumSeq(sleeps[Run]) <= 3

\* C13 witness: a download loop that failed three times after a metadata
\* loop that failed three times; 1 and 2 seconds were slept, none after
\* the third attempt.
C13_Witness ==
    /\ metaReqs[Run] = 3
    /\ candidate[Run] = "universal"
    /\ dlReqs[Run]["universal"] = 3
    /\ outcome[Run]["universal"] = "exhausted"
    /\ attempt[Run] = 3
    /\ sleeps[Run] = <<1, 2>>

\* The item name of an identifier argument: the raw string, or for a URL
\* its first non-blank itemName parameter (None when it has none).
ItemName(id) ==
    IF id.scheme \in {"http://", "https://"}
    THEN LET given == SelectSeq(id.query,
                                LAMBDA kv : kv.key = "itemName" /\ kv.val # <<>>)
         IN  IF given = <<>> THEN None ELSE given[1].val
    ELSE id.text

\* Invocation p has exited in main, before download_extension was called.
ExitedInMain(p) == pc[p] = "exited" /\ outcome[p]["platform"] = "none"

\* C14: once main has parsed the identifier, the run goes on exactly when the
\* item name has a dot with something before its first dot and something
\* after it, and then with namespace = the text before the first dot and
\* name = everything after it; otherwise it has exited with code 1.
C14_SplitOnFirstDot ==
    LET item == ItemName(extension_id[Run])
        d    == IF item = None THEN 0 ELSE Find(item, ".")
        ok   == d > 1 /\ d < Len(item)
    IN  pc[Run] # "main" =>
            IF ok
            THEN /\ ~ExitedInMain(Run)
                 /\ publisher[Run] = SubSeq(item, 1, d - 1)
                 /\ extension[Run] = SubSeq(item, d + 1, Len(item))
                 /\ Find(publisher[Run], ".") = 0
            ELSE ExitedInMain(Run) /\ exitCode[Run] = 1

\* Invocation p has parsed its identifier and got no publisher or no
\* extension.
ParseFailed(p) ==
    /\ pc[p] \notin {"off", "main"}
    /\ Falsy(publisher[p]) \/ Falsy(extension[p])

\* C15: a run whose identifier does not parse has exited with code 1 in main
\* and is over: no metadata request, no download request, no version
\* prompt, the directory not created, temp path and final path as before.
C15_ParseFailureIsTerminal ==
    /\ [] ( ParseFailed(Run) =>
              /\ ExitedInMain(Run)
              /\ exitCode[Run] = 1
              /\ metaReqs[Run] = 0
              /\ \A c \in Candidates : dlReqs[Run][c] = 0
              /\ ~prompted[Run]
              /\ Content(finalIno) = before.final
              /\ Content(tmpIno) = before.temp )
    /\ [][ ParseFailed(Run)' => dirExists' = dirExists ]_vars
    /\ [][ ~ParseFailed(Run) ]_vars

\* C15 witness: a run given an identifier without a dot has exited with 1
\* and the directory, which did not exist, still does not.
C15_Witness ==
    /\ ParseFailed(Run)
    /\ extension_id[Run] = RawId(<<"n", "o">>)
    /\ exitCode[Run] = 1
    /\ ~dirExists

\* The version the metadata service reports first in its versions list.
ListedFirst ==
    CHOOSE v \in {r.versions[1] : r \in {m \in MetaResponses : HasVersion(m)}} : TRUE

\* The label the file name of invocation p must carry.
ExpectedLabel(p) ==
    IF versionArg[p] # "" THEN versionArg[p]
    ELSE IF metaLast[p] = "resolved" THEN ListedFirst
    ELSE "latest"

\* C16: from the first download attempt on the file name is
\* namespace.name-label.vsix, label being the version given, else the first
\* listed version of the metadata response that carried one, else "latest";
\* it stays the same for both candidates, whichever commits.
C16_OneFinalPath ==
    /\ [] ( InDownloadStage(Run) =>
              filename[Run] = Filename(publisher[Run], extension[Run],
                                       ExpectedLabel(Run)) )
    /\ [][ InDownloadStage(Run) => filename'[Run] = filename[Run] ]_vars

\* C16 witness: the version came from the metadata, the platform candidate
\* failed and the universal candidate committed under the resolved label.
C16_Witness ==
    /\ versionArg[Run] = ""
    /\ metaLast[Run] = "resolved"
    /\ outcome[Run]["platform"] \in Failures
    /\ outcome[Run]["universal"] = "committed"
    /\ filename[Run] = Filename(publisher[Run], extension[Run], "3.2.1")

\* C17: whenever a download request is about to be issued, and when it is
\* issued, nothing exists at the temp path; every attempt that ends in
\* failure leaves nothing at the temp path before the next one.
C17_NoTempAtRequest ==
    /\ [] ( pc[Run] = "df_get" => tmpIno = 0 )
    /\ [][ dlReqs'[Run] # dlReqs[Run] => tmpIno = 0 ]_vars
    /\ [][ (pc[Run] \in {"df_get", "df_stream"} /\ attempt'[Run] > attempt[Run])
              => tmpIno' = 0 ]_vars

\* C17 witness: a temp file was there before the run, the first attempt of
\* the universal candidate broke off in the body, and the retry is about to
\* be requested with no temp file.
C17_Witness ==
    /\ before.temp # Absent
    /\ candidate[Run] = "universal"
    /\ pc[Run] = "df_get"
    /\ attempt[Run] = 1
    /\ dlLast[Run] = "StreamError"
    /\ tmpIno = 0

\* C18: a metadata request is issued only in the version stage and before
\* any download request; a download request only in the download loop; the
\* universal URL is requested only after the platform candidate failed;
\* after a commit there is no request and no other commit.
C18_StagesInOrder ==
    /\ [][ metaReqs'[Run] # metaReqs[Run] =>
              /\ pc[Run] = "resolve"
              /\ \A c \in Candidates : dlReqs[Run][c] = 0 ]_vars
    /\ [][ dlReqs'[Run] # dlReqs[Run] =>
              /\ pc[Run] = "df_get"
              /\ dlReqs'[Run][candidate[Run]] = dlReqs[Run][candidate[Run]] + 1 ]_vars
    /\ [][ InDownloadStage(Run) => metaReqs'[Run] = metaReqs[Run] ]_vars
    /\ [][ dlReqs'[Run]["universal"] # dlReqs[Run]["universal"] =>
              outcome[Run]["platform"] \in Failures ]_vars
    /\ [][ commits[Run] > 0 =>
              /\ metaReqs'[Run] = metaReqs[Run]
              /\ dlReqs'[Run] = dlReqs[Run]
              /\ commits'[Run] = commits[Run] ]_vars
    /\ [] ( commits[Run] <= 1 )

\* C18 witness: a run that asked the metadata service, had the platform
\* candidate fail after a request, and committed the universal candidate.
C18_Witness ==
    /\ pc[Run] = "exited"
    /\ metaReqs[Run] > 1
    /\ dlReqs[Run]["platform"] > 1
    /\ outcome[Run]["platform"] \in Failures
    /\ dlReqs[Run]["universal"] > 1
    /\ outcome[Run]["universal"] = "committed"
    /\ commits[Run] = 1

\* C19: a run never issues more than 3 metadata requests nor more than 3
\* download requests for a candidate, and, as long as steps keep being
\* taken, it ends: main exits.
C19_RunTerminates ==
    /\ [] ( /\ metaReqs[Run] <= 3
            /\ \A c \in Candidates : dlReqs[Run][c] <= 3 )
    /\ <> ( pc[Run] = "exited" )

\* C19 witness: a run that ended after 3 metadata requests and 3 download
\* requests for each candidate.
C19_Witness ==
    /\ pc[Run] = "exited"
    /\ metaReqs[Run] = 3
    /\ \A c \in Candidates : dlReqs[Run][c] = 3

\* What the step of invocation p that answers a request does when the
\* attempt is to be repeated: no temp file is left, the attempt is counted,
\* and either the backoff is slept and the same candidate is requested
\* again, or, after the third attempt, the candidate has failed and the
\* universal candidate starts or the run returns failure.
HandledAsTransient(p) ==
    /\ tmpIno' = 0
    /\ attempt'[p] = attempt[p] + 1
    /\ IF attempt[p] + 1 < 3
       THEN /\ sleeps'[p] = Append(sleeps[p], 2 ^ attempt[p])
            /\ candidate'[p] = candidate[p]
            /\ outcome'[p] = outcome[p]
            /\ pc'[p] = "df_get"
       ELSE /\ sleeps'[p] = sleeps[p]
            /\ outcome'[p][candidate[p]] = "exhausted"
            /\ IF candidate[p] = "platform"
               THEN candidate'[p] = "universal" /\ pc'[p] = "df_start"
               ELSE pc'[p] = "return" /\ ~success'[p]

\* C20: a download response with status 500 is handled as a timeout and a
\* connection error are: cleanup, backoff and another request of the same
\* URL, up to 3 attempts, then the candidate fails and the next is tried.
C20_ErrorStatusIsRetried ==
    [][ (dlReqs'[Run] # dlReqs[Run]
           /\ dlLast'[Run] \in {"500", "Timeout", "ConnectionError"})
          => HandledAsTransient(Run) ]_vars

\* C20 witness: three 500 responses for the platform candidate; the
\* candidate is exhausted and the universal candidate starts.
C20_Witness ==
    /\ dlLast[Run] = "500"
    /\ dlReqs[Run]["platform"] = 3
    /\ sleeps[Run] = <<1, 2>>
    /\ outcome[Run]["platform"] = "exhausted"
    /\ candidate[Run] = "universal"
    /\ pc[Run] = "df_start"

====
